---- MODULE Spec2Model ----
(***************************************************************************)
(* The React component App of src/src/tailwind.config.js: an image is      *)
(* uploaded, generateContent asks the generative API for a title and for   *)
(* keywords, and the keyword text is post-processed before it is shown.    *)
(*                                                                         *)
(* Strings are sequences of character codes.  A value received from the    *)
(* API is a record [t |-> its JavaScript type, s |-> its characters].      *)
(* The JavaScript event loop runs one task at a time and runs an async     *)
(* function's continuation (a microtask) before the next event, so each    *)
(* action below is one event handler together with everything it runs up   *)
(* to the next await of a network response.  copyStatus and                *)
(* copyToClipboard (lines 20, 128-147) touch no other state and are left    *)
(* out.                                                                     *)
(***************************************************************************)
EXTENDS Integers, Sequences, FiniteSets

VARIABLES
    selectedImage,  \* useState(null), line 15
    title,          \* useState(''), line 16
    keywords,       \* useState(''), line 17
    loading,        \* useState(false), line 18
    error,          \* useState(''), line 19
    apiKey,         \* whether process.env.REACT_APP_GEMINI_API_KEY is set, line 24
    readers,        \* the FileReaders still reading, each with what it will yield
    inflight,       \* the fetch requests callGeminiAPI is awaiting, answered or not
    invs,           \* position of every generateContent invocation
    runs,           \* number of generateContent invocations so far
    requests,       \* number of fetch calls issued so far
    titleOf,        \* the image whose invocation last wrote title
    keywordsOf,     \* the image whose invocation last wrote keywords
    pieces,         \* a keyword response text under construction, piece by piece
    cleaned         \* the post-processing of that text

appVars == <<selectedImage, title, keywords, loading, error, apiKey, readers,
             inflight, invs, runs, requests, titleOf, keywordsOf>>
textVars == <<pieces, cleaned>>
vars == <<appVars, textVars>>

----------------------------------------------------------------------------
(* Bounds of the model *)

MaxImages == 2
MaxReaders == 1
MaxRuns == 2
MaxHead == 2
MaxPieces == 50

(* Constants of the program *)

MaxKeywords == 45
Comma == 44

WhitespaceCodes == {32, 9, 10}
JoinSeparator == <<44, 32>>

NoImage == 0
Images == 1 .. MaxImages

----------------------------------------------------------------------------
(* JavaScript values *)

Str(s) == [t |-> "string", s |-> s]
Undefined == [t |-> "undefined", s |-> << >>]
Null == [t |-> "null", s |-> << >>]
Num(n) == [t |-> "number", s |-> <<n>>]

Truthy(v) ==
    CASE v.t = "string" -> v.s # << >>
      [] v.t = "number" -> v.s # <<0>>
      [] OTHER -> FALSE

TitleFallback ==
    Str(<<67, 111, 117, 108, 100, 32, 110, 111, 116, 32, 103, 101, 110, 101, 114,
          97, 116, 101, 32, 116, 105, 116, 108, 101, 46>>)

KeywordsFallback ==
    <<67, 111, 117, 108, 100, 32, 110, 111, 116, 32, 103, 101, 110, 101, 114,
      97, 116, 101, 32, 107, 101, 121, 119, 111, 114, 100, 115, 46>>

----------------------------------------------------------------------------
(* The keyword post-processing, lines 114-119 *)

IsWhitespace(c) == c \in WhitespaceCodes

(* s.split(','): the text up to the first comma, then the split of the rest *)
indexOfComma(s) ==
    IF \E i \in DOMAIN s : s[i] = Comma
    THEN CHOOSE i \in DOMAIN s : s[i] = Comma /\ \A j \in 1 .. i - 1 : s[j] # Comma
    ELSE 0

RECURSIVE split(_)
split(s) ==
    LET i == indexOfComma(s)
    IN IF i = 0 THEN <<s>>
       ELSE <<SubSeq(s, 1, i - 1)>> \o split(SubSeq(s, i + 1, Len(s)))

RECURSIVE trimStart(_)
trimStart(s) ==
    IF s # << >> /\ IsWhitespace(Head(s)) THEN trimStart(Tail(s)) ELSE s

RECURSIVE trimEnd(_)
trimEnd(s) ==
    IF s # << >> /\ IsWhitespace(s[Len(s)])
    THEN trimEnd(SubSeq(s, 1, Len(s) - 1))
    ELSE s

trim(s) == trimEnd(trimStart(s))

mapTrim(list) == [i \in DOMAIN list |-> trim(list[i])]

hasWhitespace(kw) == \E i \in DOMAIN kw : IsWhitespace(kw[i])

isSingleWord_NoWhitespaceTest(kw) == Len(kw) > 0

isSingleWord(kw) == Len(kw) > 0 /\ ~hasWhitespace(kw)

filterSingleWords(list) == SelectSeq(list, isSingleWord)

slice_Unbounded(list) == list

slice(list) ==
    SubSeq(list, 1, IF Len(list) < MaxKeywords THEN Len(list) ELSE MaxKeywords)

RECURSIVE join(_)
join(list) ==
    IF list = << >> THEN << >>
    ELSE IF Len(list) = 1 THEN list[1]
    ELSE list[1] \o JoinSeparator \o join(Tail(list))

cleanedKeywords(text) == join(slice(filterSingleWords(mapTrim(split(text)))))

----------------------------------------------------------------------------
(* Keyword response texts built piece by piece: a head of arbitrary pieces  *)
(* followed by distinct single words, the pieces separated by commas.       *)

Word(k) ==
    IF k < 26 THEN <<97 + k>> ELSE <<97 + (k \div 26), 97 + (k % 26)>>

OddPieces ==
    { << >>,                      \* an empty piece
      <<32>>,                     \* a blank piece
      <<32, 98, 108, 32, 115>>,   \* two words
      <<9, 122, 10>> }            \* a padded word

RECURSIVE commaJoined(_)
commaJoined(list) ==
    IF list = << >> THEN << >>
    ELSE IF Len(list) = 1 THEN list[1]
    ELSE list[1] \o <<Comma>> \o commaJoined(Tail(list))

responseText == commaJoined(pieces)

InitText ==
    /\ pieces = << >>
    /\ cleaned = cleanedKeywords(<< >>)

(* An odd piece after the head ends the text. *)
Closed == Len(pieces) > MaxHead /\ pieces[Len(pieces)] \in OddPieces

AppendOddPiece ==
    /\ Len(pieces) < MaxHead
    /\ \E p \in OddPieces : pieces' = Append(pieces, p)
    /\ cleaned' = cleanedKeywords(commaJoined(pieces'))

AppendWord ==
    /\ Len(pieces) < MaxPieces + MaxHead
    /\ ~Closed
    /\ pieces' = Append(pieces, Word(Len(pieces)))
    /\ cleaned' = cleanedKeywords(commaJoined(pieces'))

AppendLastPiece ==
    /\ Len(pieces) >= MaxHead
    /\ Len(pieces) < MaxPieces + MaxHead
    /\ ~Closed
    /\ \E p \in OddPieces : pieces' = Append(pieces, p)
    /\ cleaned' = cleanedKeywords(commaJoined(pieces'))

----------------------------------------------------------------------------
(* What the network can answer to one fetch: the promise rejects (fetch or  *)
(* response.json() fails), or the body decodes to a result object.          *)

Part(v) == [text |-> v]
Candidate(hasContent, hasParts, parts) ==
    [hasContent |-> hasContent, hasParts |-> hasParts, parts |-> parts]
Result(hasCandidates, candidates, hasError, message) ==
    [hasCandidates |-> hasCandidates, candidates |-> candidates,
     hasError |-> hasError, message |-> message]
EmptyResult == Result(FALSE, << >>, FALSE, "")

Rejects(message) == [rejects |-> TRUE, message |-> message, result |-> EmptyResult]
Decodes(result) == [rejects |-> FALSE, message |-> "", result |-> result]
WithText(v) ==
    Decodes(Result(TRUE, <<Candidate(TRUE, TRUE, <<Part(v)>>)>>, FALSE, ""))

TitleText == Str(<<83, 117, 110, 108, 105, 116, 32, 99, 97, 116>>)

ExampleText ==
    Str(<<99, 97, 116, 44, 32, 100, 111, 103, 32, 44, 32, 98, 108, 117, 101, 32,
          115, 107, 121, 44, 32, 114, 101, 100, 44, 32, 103, 114, 101, 101, 110,
          44, 32, 32, 44, 32, 102, 111, 120>>)

ManyWordsText == Str(commaJoined([k \in 1 .. MaxKeywords + 5 |-> Word(k)]))

BlankText == Str(<<32>>)

FailureOutcomes ==
    { Rejects("Failed to fetch"),
      Decodes(Result(FALSE, << >>, TRUE, "API key not valid")),
      Decodes(EmptyResult),
      Decodes(Result(TRUE, << >>, FALSE, "")),
      Decodes(Result(TRUE, <<Candidate(FALSE, FALSE, << >>)>>, FALSE, "")),
      Decodes(Result(TRUE, <<Candidate(TRUE, FALSE, << >>)>>, FALSE, "")),
      Decodes(Result(TRUE, <<Candidate(TRUE, TRUE, << >>)>>, FALSE, "")) }

OddTextOutcomes == { WithText(Str(<< >>)), WithText(Undefined), WithText(Num(7)) }

Outcomes(prompt) ==
    FailureOutcomes \cup OddTextOutcomes \cup
    IF prompt = "title" THEN { WithText(TitleText) }
    ELSE { WithText(ExampleText), WithText(ManyWordsText), WithText(BlankText) }

----------------------------------------------------------------------------
(* callGeminiAPI, lines 40-88 *)

ValidationError == "Please upload an image first to generate content."
ConfigError ==
    "API Key is not configured. Please set REACT_APP_GEMINI_API_KEY in your environment variables."
ApiError(message) ==
    "API Error: " \o message \o ". Please check your API Key and network."

KeyMissing_Never == FALSE

KeyMissing == ~apiKey

Returned(v) == [value |-> v, setsError |-> FALSE, error |-> ""]
Caught(message) == [value |-> Null, setsError |-> TRUE, error |-> ApiError(message)]

callWithoutKey == [value |-> Null, setsError |-> TRUE, error |-> ConfigError]

hasUsablePart(result) ==
    /\ result.hasCandidates
    /\ Len(result.candidates) > 0
    /\ result.candidates[1].hasContent
    /\ result.candidates[1].hasParts
    /\ Len(result.candidates[1].parts) > 0

callGeminiAPI(outcome) ==
    IF outcome.rejects THEN Caught(outcome.message)
    ELSE IF hasUsablePart(outcome.result)
         THEN Returned(outcome.result.candidates[1].parts[1].text)
         ELSE Caught(IF outcome.result.hasError
                     THEN outcome.result.message
                     ELSE "No content received from API.")

errorAfter(err, ret) == IF ret.setsError THEN ret.error ELSE err

----------------------------------------------------------------------------
(* The component's state after construction, lines 15-24 *)

EmptyString == Str(<< >>)
(* A request as fetch sends it, and once the network has answered it *)
Request(run, prompt, image) ==
    [run |-> run, prompt |-> prompt, image |-> image,
     answered |-> FALSE, outcome |-> Decodes(EmptyResult)]
Answered(r, outcome) == [r EXCEPT !.answered = TRUE, !.outcome = outcome]

InitApp ==
    /\ selectedImage = NoImage
    /\ title = EmptyString
    /\ keywords = << >>
    /\ loading = FALSE
    /\ error = ""
    /\ apiKey \in BOOLEAN
    /\ readers = << >>
    /\ inflight = {}
    /\ invs = [i \in 1 .. MaxRuns |-> "idle"]
    /\ runs = 0
    /\ requests = 0
    /\ titleOf = NoImage
    /\ keywordsOf = NoImage

----------------------------------------------------------------------------
(* handleImageUpload, lines 26-38: file is event.target.files[0], NoImage   *)
(* when the dialog was closed without a file.                               *)

handleImageUpload(file) ==
    /\ Len(readers) < MaxReaders
    /\ IF file # NoImage
       THEN /\ error' = ""
            /\ readers' = Append(readers, file)
       ELSE UNCHANGED <<error, readers>>
    /\ UNCHANGED <<selectedImage, title, keywords, loading, apiKey, inflight,
                   invs, runs, requests, titleOf, keywordsOf>>

(* reader.onloadend, lines 31-35: it fires when the read succeeded, with    *)
(* the data URL, and when it failed, with reader.result null.               *)

onloadend(k, succeeded) ==
    /\ k \in DOMAIN readers
    /\ selectedImage' = IF succeeded THEN readers[k] ELSE NoImage
    /\ title' = EmptyString
    /\ keywords' = << >>
    /\ titleOf' = NoImage
    /\ keywordsOf' = NoImage
    /\ readers' = SubSeq(readers, 1, k - 1) \o SubSeq(readers, k + 1, Len(readers))
    /\ UNCHANGED <<loading, error, apiKey, inflight, invs, runs, requests>>

----------------------------------------------------------------------------
(* generateContent, lines 90-126 *)

titleAfter(ret) == IF Truthy(ret.value) THEN ret.value ELSE TitleFallback

(* Lines 112-123: a truthy value that is no string has no split method, and *)
(* the TypeError leaves generateContent before setKeywords and setLoading.  *)
keywordsAfter(ret) ==
    IF Truthy(ret.value)
    THEN IF ret.value.t = "string"
         THEN [threw |-> FALSE, keywords |-> cleanedKeywords(ret.value.s)]
         ELSE [threw |-> TRUE, keywords |-> << >>]
    ELSE [threw |-> FALSE, keywords |-> KeywordsFallback]

ButtonDisabled_IgnoresLoading == selectedImage = NoImage

(* disabled={!selectedImage || loading}, line 206 *)
ButtonDisabled == selectedImage = NoImage \/ loading

(* Lines 91-94 without the return: the invocation goes on with no image,    *)
(* and null.split at line 56 throws inside the try.                         *)
GenerateNoImage_FallsThrough ==
    /\ runs < MaxRuns
    /\ selectedImage = NoImage
    /\ error' = IF KeyMissing THEN ConfigError
                ELSE ApiError("Cannot read properties of null (reading 'split')")
    /\ title' = TitleFallback
    /\ keywords' = KeywordsFallback
    /\ loading' = FALSE
    /\ titleOf' = NoImage
    /\ keywordsOf' = NoImage
    /\ runs' = runs + 1
    /\ invs' = [invs EXCEPT ![runs + 1] = "done"]
    /\ UNCHANGED <<selectedImage, apiKey, readers, inflight, requests>>

(* Lines 91-94.  The button is disabled without an image: this is the       *)
(* handler called directly.                                                 *)
GenerateNoImage ==
    /\ runs < MaxRuns
    /\ selectedImage = NoImage
    /\ error' = ValidationError
    /\ runs' = runs + 1
    /\ invs' = [invs EXCEPT ![runs + 1] = "noImage"]
    /\ UNCHANGED <<selectedImage, title, keywords, loading, apiKey, readers,
                   inflight, requests, titleOf, keywordsOf>>

(* Without the key both calls return null at line 43 with no await of the   *)
(* network in between: the invocation runs to line 125 in one task.         *)
GenerateNoKey ==
    /\ runs < MaxRuns
    /\ ~ButtonDisabled
    /\ KeyMissing
    /\ LET first == callWithoutKey
           second == callWithoutKey
           kw == keywordsAfter(second)
       IN /\ title' = titleAfter(first)
          /\ keywords' = kw.keywords
          /\ error' = errorAfter(errorAfter("", first), second)
          /\ loading' = FALSE
    /\ titleOf' = selectedImage
    /\ keywordsOf' = selectedImage
    /\ runs' = runs + 1
    /\ invs' = [invs EXCEPT ![runs + 1] = "done"]
    /\ UNCHANGED <<selectedImage, apiKey, readers, inflight, requests>>

(* Lines 96-102 up to the await of fetch at line 66 *)
GenerateStart ==
    /\ runs < MaxRuns
    /\ ~ButtonDisabled
    /\ ~KeyMissing
    /\ loading' = TRUE
    /\ error' = ""
    /\ runs' = runs + 1
    /\ invs' = [invs EXCEPT ![runs + 1] = "awaitTitle"]
    /\ inflight' = inflight \cup {Request(runs + 1, "title", selectedImage)}
    /\ requests' = requests + 1
    /\ UNCHANGED <<selectedImage, title, keywords, apiKey, readers,
                   titleOf, keywordsOf>>

(* The title answer handled by a generateContent that gives up when the    *)
(* title call returned nothing.                                             *)
TitleResponse_AbortsOnFailure(r) ==
    /\ r \in inflight
    /\ r.answered
    /\ r.prompt = "title"
    /\ LET ret == callGeminiAPI(r.outcome)
       IN /\ error' = errorAfter(error, ret)
          /\ title' = titleAfter(ret)
          /\ IF Truthy(ret.value)
             THEN /\ inflight' = (inflight \ {r}) \cup
                                     {Request(r.run, "keywords", r.image)}
                  /\ requests' = requests + 1
                  /\ invs' = [invs EXCEPT ![r.run] = "awaitKeywords"]
                  /\ UNCHANGED loading
             ELSE /\ inflight' = inflight \ {r}
                  /\ invs' = [invs EXCEPT ![r.run] = "done"]
                  /\ loading' = FALSE
                  /\ UNCHANGED requests
    /\ titleOf' = r.image
    /\ UNCHANGED <<selectedImage, keywords, apiKey, readers, runs, keywordsOf>>

(* Lines 66-72: the awaits of fetch and of response.json() end, with what   *)
(* the network made of the request.                                         *)
NetworkAnswers(r, outcome) ==
    /\ r \in inflight
    /\ ~r.answered
    /\ inflight' = (inflight \ {r}) \cup {Answered(r, outcome)}
    /\ UNCHANGED <<selectedImage, title, keywords, loading, error, apiKey, readers,
                   invs, runs, requests, titleOf, keywordsOf>>

(* Lines 72-87 for the title request, then lines 103-111 up to the await of *)
(* the keyword fetch.                                                       *)
TitleResponse(r) ==
    /\ r \in inflight
    /\ r.answered
    /\ r.prompt = "title"
    /\ LET ret == callGeminiAPI(r.outcome)
       IN /\ error' = errorAfter(error, ret)
          /\ title' = titleAfter(ret)
    /\ titleOf' = r.image
    /\ inflight' = (inflight \ {r}) \cup {Request(r.run, "keywords", r.image)}
    /\ requests' = requests + 1
    /\ invs' = [invs EXCEPT ![r.run] = "awaitKeywords"]
    /\ UNCHANGED <<selectedImage, keywords, loading, apiKey, readers, runs, keywordsOf>>

(* Lines 72-87 for the keyword request, then lines 112-125 *)
KeywordsResponse(r) ==
    /\ r \in inflight
    /\ r.answered
    /\ r.prompt = "keywords"
    /\ LET ret == callGeminiAPI(r.outcome)
           kw == keywordsAfter(ret)
       IN /\ error' = errorAfter(error, ret)
          /\ IF kw.threw
             THEN /\ invs' = [invs EXCEPT ![r.run] = "threw"]
                  /\ UNCHANGED <<keywords, keywordsOf, loading>>
             ELSE /\ invs' = [invs EXCEPT ![r.run] = "done"]
                  /\ keywords' = kw.keywords
                  /\ keywordsOf' = r.image
                  /\ loading' = FALSE
    /\ inflight' = inflight \ {r}
    /\ UNCHANGED <<selectedImage, title, apiKey, readers, runs, requests, titleOf>>

----------------------------------------------------------------------------
(* The application *)

Upload == \E file \in Images \cup {NoImage} : handleImageUpload(file)
LoadEnd == \E k \in DOMAIN readers, succeeded \in BOOLEAN : onloadend(k, succeeded)
Answer == \E r \in inflight : \E o \in Outcomes(r.prompt) : NetworkAnswers(r, o)
TitleArrives == \E r \in inflight : TitleResponse(r)
KeywordsArrive == \E r \in inflight : KeywordsResponse(r)

Init == InitApp /\ InitText

Next ==
    \/ Upload /\ UNCHANGED textVars
    \/ LoadEnd /\ UNCHANGED textVars
    \/ GenerateNoImage /\ UNCHANGED textVars
    \/ GenerateNoKey /\ UNCHANGED textVars
    \/ GenerateStart /\ UNCHANGED textVars
    \/ Answer /\ UNCHANGED textVars
    \/ TitleArrives /\ UNCHANGED textVars
    \/ KeywordsArrive /\ UNCHANGED textVars

Spec == Init /\ [][Next]_vars

(* The post-processing alone, on the texts built piece by piece *)

InitClean == InitText /\ InitApp /\ apiKey

NextClean ==
    \/ AppendOddPiece /\ UNCHANGED appVars
    \/ AppendWord /\ UNCHANGED appVars
    \/ AppendLastPiece /\ UNCHANGED appVars

SpecClean == InitClean /\ [][NextClean]_vars

----------------------------------------------------------------------------
(* A string read as a comma-separated list, by the positions of its commas  *)

CommaPositions(s) == {i \in DOMAIN s : s[i] = 44}

PieceCount(s) == Cardinality(CommaPositions(s)) + 1

(* The pieces of s between its commas: those before the last comma, then   *)
(* what follows it.                                                         *)
RECURSIVE PiecesOf(_)
PiecesOf(s) ==
    IF CommaPositions(s) = {} THEN <<s>>
    ELSE LET last == CHOOSE i \in CommaPositions(s) :
                         \A j \in i + 1 .. Len(s) : s[j] # 44
         IN Append(PiecesOf(SubSeq(s, 1, last - 1)), SubSeq(s, last + 1, Len(s)))

PieceAt(s, k) == PiecesOf(s)[k]

Blank(c) == c \in {32, 9, 10}

(* p without the whitespace around it *)
Stripped(p) ==
    LET inked == {i \in DOMAIN p : ~Blank(p[i])}
    IN IF inked = {} THEN << >>
       ELSE SubSeq(p, CHOOSE i \in inked : \A j \in inked : i <= j,
                      CHOOSE i \in inked : \A j \in inked : j <= i)

NoBlank(w) == \A i \in DOMAIN w : ~Blank(w[i])

OneWord(w) == w # << >> /\ NoBlank(w)

Tokens(s) ==
    LET ps == PiecesOf(s)
    IN [k \in DOMAIN ps |-> Stripped(ps[k])]

(* The pieces of s that are single words once stripped, at most n of them *)
FirstWords(s, n) ==
    LET words == SelectSeq(Tokens(s), OneWord)
    IN SubSeq(words, 1, IF Len(words) < n THEN Len(words) ELSE n)

(* out is the words of list, in order, with ", " between them *)
IsListOf(out, list) ==
    IF list = << >> THEN out = << >>
    ELSE LET ps == PiecesOf(out)
         IN /\ Len(ps) = Len(list)
            /\ \A k \in DOMAIN list :
                   ps[k] = (IF k = 1 THEN list[k] ELSE <<32>> \o list[k])

WithinLimit(s) ==
    LET toks == Tokens(s)
    IN /\ Len(toks) <= 45
       /\ \A k \in DOMAIN toks : NoBlank(toks[k])

----------------------------------------------------------------------------
(* C1, as stated: in every reachable state the keywords, read as a          *)
(* comma-separated list, hold at most 45 tokens and no token contains       *)
(* whitespace.                                                              *)
C1_KeywordsAlwaysWithinLimit == WithinLimit(keywords)

(* C1, amended: in every reachable state the keywords are either the       *)
(* placeholder "Could not generate keywords." or, read as a                 *)
(* comma-separated list, hold at most 45 tokens none of which contains      *)
(* whitespace.                                                              *)
C1_KeywordsWithinLimitOrFallback ==
    keywords = KeywordsFallback \/ WithinLimit(keywords)

(* A keyword answer of 50 words was cut to 45 by a completed invocation. *)
C1_Witness ==
    /\ PieceCount(keywords) = 45
    /\ \E i \in DOMAIN invs : invs[i] = "done"

(* C2: the post-processing of every keyword response text is the list made  *)
(* of its comma-separated pieces, stripped, that are single words, the      *)
(* first 45 of them in their order, joined with ", "; so it has at most 45  *)
(* entries, none with whitespace, and a text of 50 single words yields its  *)
(* first 45.                                                                *)
C2_PostProcessing ==
    /\ IsListOf(cleaned, FirstWords(responseText, 45))
    /\ WithinLimit(cleaned)
    /\ (Len(pieces) = 50 /\ \A k \in DOMAIN pieces : pieces[k] = Word(k - 1))
           => IsListOf(cleaned, SubSeq(pieces, 1, 45))

(* More than 50 pieces, the first of two words and the second a padded     *)
(* word: 45 entries are kept and the padded word is the first.              *)
C2_Witness ==
    /\ Len(pieces) > 50
    /\ pieces[1] = <<32, 98, 108, 32, 115>>
    /\ pieces[2] = <<9, 122, 10>>
    /\ PieceCount(cleaned) = 45
    /\ PieceAt(cleaned, 1) = <<122>>

(* C3: a generateContent invocation with no image selected sets the         *)
(* validation error, issues no request and leaves title, keywords and       *)
(* loading as they were.                                                    *)
C3_NoImageValidation ==
    [][(runs' = runs + 1 /\ selectedImage = NoImage)
           => /\ error' = ValidationError
              /\ requests' = requests
              /\ inflight' = inflight
              /\ title' = title
              /\ keywords' = keywords
              /\ loading' = loading]_vars

(* An invocation without image was refused while a title was displayed. *)
C3_Witness ==
    /\ error = ValidationError
    /\ title = TitleText
    /\ selectedImage = NoImage

(* C4: a generateContent invocation with an image selected and the          *)
(* credential unset issues no request, and completes with both             *)
(* placeholders, the configuration error and loading false.                 *)
C4_NoKeyFallbacks ==
    /\ [](~apiKey => requests = 0 /\ inflight = {})
    /\ [][(runs' = runs + 1 /\ selectedImage # NoImage /\ ~apiKey)
              => /\ invs'[runs'] = "done"
                 /\ title' = TitleFallback
                 /\ keywords' = KeywordsFallback
                 /\ error' = ConfigError
                 /\ loading' = FALSE]_vars

(* An invocation has completed without the credential. *)
C4_Witness ==
    /\ ~apiKey
    /\ \E i \in DOMAIN invs : invs[i] = "done"
    /\ error = ConfigError
    /\ title = TitleFallback

(* C5: whatever the answer to the title request, handling it issues the    *)
(* keyword request of the same invocation; a keyword request answered with  *)
(* a text sets the keywords to its post-processing; a failed keyword        *)
(* request leaves the title as it was.                                      *)
C5_RequestsIndependent ==
    [][\A r \in inflight \ inflight' :
           r.answered =>
               /\ r.prompt = "title"
                      => /\ Request(r.run, "keywords", r.image) \in inflight'
                         /\ requests' = requests + 1
               /\ r.prompt = "keywords"
                      => LET ret == callGeminiAPI(r.outcome)
                         IN /\ (ret.value.t = "string" /\ ret.value.s # << >>)
                                   => keywords' = cleanedKeywords(ret.value.s)
                            /\ ret.setsError => title' = title]_vars

(* The title request failed in transport and the keywords of the same      *)
(* invocation were set from their answer.                                   *)
C5_Witness ==
    /\ \E i \in DOMAIN invs : invs[i] = "done"
    /\ title = TitleFallback
    /\ error = ApiError("Failed to fetch")
    /\ keywords = cleanedKeywords(ExampleText.s)

(* C6, as stated: no generateContent invocation begins after a new file was *)
(* selected while title or keywords still hold the previous image's values. *)
C6_ClearedBeforeGeneration ==
    [][(runs' = runs + 1 /\ selectedImage # NoImage)
           => ~ \/ (title # EmptyString \/ keywords # << >>) /\ readers # << >>
                \/ title # EmptyString /\ titleOf # selectedImage
                \/ keywords # << >> /\ keywordsOf # selectedImage]_vars

(* C7, as stated: when an invocation completes with a placeholder in title  *)
(* or keywords, the error is a non-empty message.                           *)
C7_FallbackHasError ==
    [][\A i \in DOMAIN invs :
           (invs[i] # "done" /\ invs'[i] = "done"
                /\ (title' = TitleFallback \/ keywords' = KeywordsFallback))
               => error' # ""]_vars

(* C8, as stated: no response lets an error escape generateContent and      *)
(* leave loading at true.                                                   *)
C8_NoErrorEscapes == \A i \in DOMAIN invs : ~(invs[i] = "threw" /\ loading)

(* C9: while loading is false no request is outstanding, at most one        *)
(* request is outstanding at any time, and a keyword request is issued only *)
(* by the step that handles the answer to its invocation's title request.   *)
C9_OneRequestAtATime ==
    /\ [](Cardinality(inflight) <= 1 /\ (~loading => inflight = {}))
    /\ [][\A r \in inflight' \ inflight :
              (r.prompt = "keywords" /\ ~r.answered)
                  => \E q \in inflight \ inflight' :
                         q.prompt = "title" /\ q.run = r.run /\ q.answered]_vars

(* The second invocation awaits the answer to its keyword request. *)
C9_Witness ==
    /\ loading
    /\ runs = 2
    /\ \E r \in inflight : r.prompt = "keywords" /\ r.run = 2

(* C10, as stated: while no generation is in flight, a non-empty title or   *)
(* keywords was produced by an invocation run on the selected image.        *)
C10_ResultsBelongToImage ==
    ~loading => /\ title # EmptyString => titleOf = selectedImage
                /\ keywords # << >> => keywordsOf = selectedImage

====
